---- MODULE Spec2Model ----
(***************************************************************************)
(* Load-generation harness of openwhisk-client-go-ex                       *)
(* (example/example_list_actions.go): result polling (GetResult),          *)
(* concurrent rounds (send_con_req), the warm-up ramp (warm_up), the rate  *)
(* sweep (benchmark_step_warm_lat) and the provisioned-concurrency sweep   *)
(* (benchmark_warm_at_fixed_provision).                                    *)
(*                                                                         *)
(* The controller goroutine is a state machine over the control location   *)
(* ctl with a return stack; the goroutines it launches are counted per     *)
(* local position in tasks.  float64 arithmetic of the pacing loop is      *)
(* computed bit-exactly (53-bit significand, round to nearest even).       *)
(***************************************************************************)
EXTENDS Integers, Sequences, FiniteSets, TLC

VARIABLES
    entry,          \* the function the run was started with
    args,           \* its arguments
    service,        \* "healthy": every invocation succeeds; "any": calls may fail
    timing,         \* "clocked": the wall clock is tracked; "free": it is not
    ctl,            \* control location of the controller goroutine
    stack,          \* return locations of the controller's pending calls
    resps,          \* GetResult run: the service's answers to successive fetches
    result,         \* GetResult run: what GetResult returned and did
    num, count,     \* send_con_req: parameter num, loop variable count
    wg,             \* counter of the sync.WaitGroup of the round in progress
    tasks,          \* number of launched goroutines at each local position
    has_error,      \* benchmark_step_warm_lat: the int32 error flag
    hist,           \* rounds and sleeps the controller has started, in order
    started,        \* goroutines launched in the round in progress
    completed,      \* goroutines of the round in progress that ran wg.Done
    failed,         \* handle_error printed an error for a goroutine of the round
    failed_at,      \* step or level of the first error handle_error printed, or 0
    rate, w_step, w_target,             \* warm_up: loop variable, step, target
    cur_rate, target_rate, id,          \* benchmark_step_warm_lat locals
    inter_arrival, t,                   \* float64 locals of the pacing loop
    seen_error,     \* the read of has_error at line 213 returned 1
    late_dispatches, \* goroutines of the round launched while has_error was 1
    wall,           \* the wall clock (time.Now().UnixMicro()), in microseconds
    start_time, now, \* benchmark_step_warm_lat: clock readings of lines 192, 195
    pc, tc, rep_time                    \* benchmark_warm_at_fixed_provision locals

vars == <<entry, args, service, timing, ctl, stack, resps, result, num, count,
          wg, tasks, has_error, hist, started, completed, failed, failed_at,
          rate, w_step, w_target, cur_rate, target_rate, id,
          inter_arrival, t, seen_error, late_dispatches, wall, start_time, now,
          pc, tc, rep_time>>

(***************************************************************************)
(* Natural numbers as bit sequences, least significant bit first.  The     *)
(* operators avoid deep recursion: sums go 24 bits at a time.              *)
(***************************************************************************)
\* In the operators below an argument that is read more than once is first bound
\* to its value (v \in {argument}), so that it is computed once.

\* without the zero bits at the high end
BTrimOf(bits) ==
    LET top == CHOOSE i \in 0..Len(bits) :
                   /\ i = 0 \/ bits[i] = 1
                   /\ \A j \in (i + 1)..Len(bits) : bits[j] = 0
    IN  SubSeq(bits, 1, top)

BTrim(bits) == CHOOSE r \in {BTrimOf(b) : b \in {bits}} : TRUE

\* number of bits of n
RECURSIVE BitLen(_)
BitLen(n) == IF n = 0 THEN 0 ELSE 1 + BitLen(n \div 2)

BFromNat(n) ==
    CHOOSE r \in {[i \in 1..BitLen(v) |-> (v \div 2^(i - 1)) % 2] \o <<>> :
                     v \in {n}} : TRUE

\* the value of a bit sequence short enough for an int
RECURSIVE BToNat(_)
BToNatOf(bits) ==
    IF Len(bits) = 0 THEN 0
    ELSE IF Len(bits) = 1 THEN bits[1]
    ELSE BToNat(SubSeq(bits, 1, Len(bits) \div 2))
           + 2^(Len(bits) \div 2)
             * BToNat(SubSeq(bits, Len(bits) \div 2 + 1, Len(bits)))

BToNat(bits) == CHOOSE r \in {BToNatOf(b) : b \in {bits}} : TRUE

\* the value of chunk c (c = 0, 1, ...) of bits
BChunk(bits, c) ==
    IF c * 24 >= Len(bits) THEN 0
    ELSE BToNat(SubSeq(bits, c * 24 + 1,
                       IF (c + 1) * 24 < Len(bits)
                       THEN (c + 1) * 24 ELSE Len(bits)))

ChunkSeq(v) ==
    CHOOSE r \in {[i \in 1..24 |-> (n \div 2^(i - 1)) % 2] \o <<>> : n \in {v}} : TRUE

RECURSIVE BAddFrom(_, _, _, _)
BAddFrom(x, y, c, carry) ==
    IF c * 24 >= Len(x) /\ c * 24 >= Len(y)
    THEN BFromNat(carry)
    ELSE ChunkSeq((BChunk(x, c) + BChunk(y, c) + carry) % 2^24)
           \o BAddFrom(x, y, c + 1,
                       (BChunk(x, c) + BChunk(y, c) + carry) \div 2^24)

BAdd(x, y) ==
    CHOOSE r \in {BTrim(BAddFrom(a, b, 0, 0)) : a \in {x}, b \in {y}} : TRUE

BShl(bits, k) == IF bits = <<>> THEN <<>> ELSE [i \in 1..k |-> 0] \o bits

\* product, by shift and add over the bits of the multiplier
RECURSIVE BMulBy(_, _)
BMulBy(x, multiplier) ==
    IF multiplier = <<>> \/ x = <<>> THEN <<>>
    ELSE BAdd(IF Head(multiplier) = 1 THEN x ELSE <<>>,
              BShl(BMulBy(x, Tail(multiplier)), 1))

BMul(x, y) == IF Len(x) < Len(y) THEN BMulBy(y, x) ELSE BMulBy(x, y)

\* 16 bits of v, least significant first
WordSeq(v) ==
    CHOOSE r \in {[i \in 1..16 |-> (n \div 2^(i - 1)) % 2] \o <<>> : n \in {v}} : TRUE

\* v carried into the words of bits times w from word c (c = 0, 1, ...) on
RECURSIVE BMulWordFrom(_, _, _, _)
BMulWordFrom(bits, w, c, v) ==
    IF c * 16 >= Len(bits) THEN BFromNat(v)
    ELSE WordSeq((BToNat(SubSeq(bits, c * 16 + 1,
                                IF (c + 1) * 16 < Len(bits)
                                THEN (c + 1) * 16 ELSE Len(bits))) * w + v)
                   % 2^16)
           \o BMulWordFrom(bits, w, c + 1,
                  (BToNat(SubSeq(bits, c * 16 + 1,
                                 IF (c + 1) * 16 < Len(bits)
                                 THEN (c + 1) * 16 ELSE Len(bits))) * w + v)
                    \div 2^16)

\* product of bits and a multiplier w below 2^15, 16 bits at a time
BMulWord(bits, w) ==
    CHOOSE r \in {BTrim(BMulWordFrom(b, v, 0, 0)) : b \in {bits}, v \in {w}} : TRUE

\* x < y, for trimmed x and y
BLessOf(x, y) ==
    IF Len(x) # Len(y) THEN Len(x) < Len(y)
    ELSE \E i \in 1..Len(x) :
            /\ x[i] < y[i]
            /\ \A j \in (i + 1)..Len(x) : x[j] = y[j]

BLess(x, y) == CHOOSE r \in {BLessOf(a, b) : a \in {x}, b \in {y}} : TRUE

(***************************************************************************)
(* Non-negative float64 values: [m, e] stands for m * 2^e, with m zero or  *)
(* odd and of at most Float64Bits bits.  Exponent range is not modelled:   *)
(* the pacing loop stays far from overflow and underflow.                  *)
(***************************************************************************)
Float64Bits == 53

\* the float of value bits * 2^ex, for trimmed bits of at most Float64Bits bits
FNormOf(bits, ex) ==
    IF bits = <<>> THEN [m |-> <<>>, e |-> 0]
    ELSE LET low == CHOOSE i \in 1..Len(bits) :
                        bits[i] = 1 /\ \A j \in 1..(i - 1) : bits[j] = 0
         IN  [m |-> SubSeq(bits, low, Len(bits)), e |-> ex + low - 1]

FNorm(bits, ex) == CHOOSE r \in {FNormOf(b, v) : b \in {bits}, v \in {ex}} : TRUE

\* the float64 nearest to bits * 2^ex, ties to even
FRoundOf(trimmed, ex) ==
    LET width == Len(trimmed)
    IN  IF width <= Float64Bits THEN FNorm(trimmed, ex)
        ELSE LET drop   == width - Float64Bits
                 kept   == SubSeq(trimmed, drop + 1, width)
                 guard  == trimmed[drop]
                 sticky == \E i \in 1..(drop - 1) : trimmed[i] = 1
                 up     == guard = 1 /\ (sticky \/ kept[1] = 1)
             IN  FNorm(IF up THEN BAdd(kept, <<1>>) ELSE kept, ex + drop)

FRound(bits, ex) ==
    CHOOSE r \in {FRoundOf(b, v) : b \in {BTrim(bits)}, v \in {ex}} : TRUE

FMin(i, j) == IF i < j THEN i ELSE j

FAddOf(x, y) ==
    LET lowAdd == FMin(x.e, y.e)
    IN  FRound(BAdd(BShl(x.m, x.e - lowAdd), BShl(y.m, y.e - lowAdd)), lowAdd)

FAdd(x, y) == CHOOSE r \in {FAddOf(a, b) : a \in {x}, b \in {y}} : TRUE

FMul(x, y) ==
    CHOOSE r \in {FRound(BMul(a.m, b.m), a.e + b.e) : a \in {x}, b \in {y}} : TRUE

\* x * float64(n) for an int n whose odd part is below 2^15
FMulInt(x, n) ==
    CHOOSE r \in {FRound(BMulWord(a.m, BToNat(b.m)), a.e + b.e) :
                     a \in {x}, b \in {FNorm(BFromNat(n), 0)}} : TRUE

FLessOf(x, y) ==
    LET lowCmp == FMin(x.e, y.e)
    IN  BLess(BShl(x.m, x.e - lowCmp), BShl(y.m, y.e - lowCmp))

FLess(x, y) == CHOOSE r \in {FLessOf(a, b) : a \in {x}, b \in {y}} : TRUE

\* float64(n) for an int n >= 0 (exact below 2^53)
FFromInt(n) == FNorm(BFromNat(n), 0)

\* the float64 constant n / 2^shift
FDyadic(n, shift) == FNorm(BFromNat(n), 0 - shift)

\* int64(x): x truncated to an integer
FTruncOf(x) ==
    IF x.e >= 0 THEN BToNat(x.m) * 2^x.e
    ELSE IF 0 - x.e >= Len(x.m) THEN 0
    ELSE BToNat(SubSeq(x.m, 1 - x.e, Len(x.m)))

FTrunc(x) == CHOOSE r \in {FTruncOf(v) : v \in {x}} : TRUE

\* 2^k modulo divisor
RECURSIVE Pow2Mod(_, _)
Pow2Mod(k, divisor) ==
    IF k = 0 THEN 1 % divisor
    ELSE IF k % 2 = 1 THEN (2 * Pow2Mod(k - 1, divisor)) % divisor
    ELSE (Pow2Mod(k \div 2, divisor) * Pow2Mod(k \div 2, divisor)) % divisor

\* long division of 1 by divisor: the digits binary digits after the point,
\* least significant first, above them the integer part
InvBits(divisor, digits) ==
    [i \in 1..digits |-> (2 * Pow2Mod(digits - i, divisor)) \div divisor]
      \o BFromNat(1 \div divisor)

\* 1.0 / float64(divisor) for an int divisor >= 1
FInv(divisor) ==
    LET places == Float64Bits + 2 + BitLen(divisor)
    IN  FRound(<<(IF Pow2Mod(places, divisor) # 0 THEN 1 ELSE 0)>>
                 \o InvBits(divisor, places),
               0 - (places + 1))

(***************************************************************************)
(* OwClient.GetResult.  A fetch (Activations.Get) answers "ok" (err ==     *)
(* nil), "notfound" (err != nil, resp.Status == "404 Not Found") or        *)
(* "other" (err != nil, any other status).  answers lists the answers to   *)
(* successive fetches; the last one repeats.  The run is a record: the     *)
(* answer held in (resp, err), retry_count, the number of fetches, the     *)
(* trace of fetch answers and "sleep"s, and whether "exhausted retries"    *)
(* was logged.                                                             *)
(***************************************************************************)
Answers == {"ok", "notfound", "other"}

RetryBudget == 18

Answer(answers, i) ==
    IF i <= Len(answers) THEN answers[i] ELSE answers[Len(answers)]

\* line 110 after the mutation of the comparison
ExhaustedOffByOne(retry_count) == retry_count < 0

\* line 110: if retry_count <= 0
Exhausted(retry_count) == retry_count <= 0

RECURSIVE GetResultLoop(_, _)
GetResultStep(answers, s) ==
    IF s.resp = "ok" THEN s                                  \* for err != nil
    ELSE LET rc == s.retry_count - 1 IN                      \* retry_count--
         IF s.resp # "notfound"
         THEN [s EXCEPT !.retry_count = rc]                  \* break (line 106)
         ELSE LET n  == s.fetches + 1
                  s1 == [s EXCEPT !.retry_count = rc,
                                  !.fetches = n,
                                  !.resp = Answer(answers, n),
                                  !.trace = Append(@, Answer(answers, n))]
              IN  IF Exhausted(rc)
                  THEN [s1 EXCEPT !.exhausted = TRUE]        \* log, break
                  ELSE GetResultLoop(answers,
                           [s1 EXCEPT !.trace = Append(@, "sleep")])

GetResultLoop(answers, s) ==
    CHOOSE r \in {GetResultStep(a, v) : a \in {answers}, v \in {s}} : TRUE

GetResult(answers) ==
    GetResultLoop(answers,
        [resp        |-> Answer(answers, 1),
         retry_count |-> RetryBudget,
         fetches     |-> 1,
         trace       |-> <<Answer(answers, 1)>>,
         exhausted   |-> FALSE])

\* the error GetResult returns: nil exactly when the last fetch succeeded
Err(r) == r.resp # "ok"

(***************************************************************************)
(* Bounds and input sets.                                                  *)
(***************************************************************************)
MaxNotFound == 20       \* leading "notfound" answers in a GetResult run
MaxNum == 4             \* size of a stand-alone concurrent round
MaxStart == 1           \* warm_up inputs besides (0, 4, 16)
MaxStep == 2
MaxTarget == 2
MaxRate == 3            \* rates of the rate sweep
MaxRateStep == 2
MaxWarmStep == 1
MaxPaceRate == 5        \* rates of the long measurement round
MaxInFlight == 4        \* goroutines of a measurement round in flight at once
MaxProvisioned == 3     \* pc_right of the provisioned-concurrency sweep
MaxClockRate == 3       \* rates of the clocked measurement round
TickMicros == 200000    \* the clock advances in steps of TickMicros microseconds
MaxTicks == 6           \* ... until it reaches MaxTicks * TickMicros

\* k "notfound" answers, then a, then b for ever
Scenario(k, a, b) == [i \in 1..(k + 2) |->
                        IF i <= k THEN "notfound" ELSE IF i = k + 1 THEN a ELSE b]

GetResultInputs ==
    {Scenario(k, a, b) : k \in 0..MaxNotFound, a \in Answers, b \in Answers}

\* whether InvokeAction of a launched goroutine succeeds
InvokeOutcomes == IF service = "healthy" THEN {TRUE} ELSE BOOLEAN

\* what the service answers to the fetches of one launched goroutine
TaskAnswers ==
    {Scenario(k, a, a) : k \in {0, RetryBudget},
                         a \in IF service = "healthy" THEN {"ok"} ELSE Answers}

NoResult == [resp |-> "none", retry_count |-> 0, fetches |-> 0,
             trace |-> <<>>, exhausted |-> FALSE]

NoTasks == [invoke |-> 0, getresult |-> 0, store |-> 0, exit |-> 0]

Zero == FFromInt(0)

InFlight == tasks.invoke + tasks.getresult + tasks.store + tasks.exit

inputVars == <<entry, args, service, timing>>
getVars   == <<resps, result>>
conVars   == <<num, count>>
roundVars == <<wg, tasks, started, completed, failed, failed_at>>
warmVars  == <<rate, w_step, w_target>>
stepVars  == <<cur_rate, target_rate, id, inter_arrival, t, seen_error,
               late_dispatches, wall, start_time, now>>
provVars  == <<pc, tc, rep_time>>

\* no call made yet: locals at their zero values
Locals ==
    /\ result = NoResult
    /\ num = 0 /\ count = 0
    /\ wg = 0 /\ tasks = NoTasks /\ started = 0 /\ completed = 0 /\ failed = FALSE
    /\ failed_at = 0
    /\ has_error = 0 /\ hist = <<>>
    /\ rate = 0 /\ w_step = 0 /\ w_target = 0
    /\ cur_rate = 0 /\ target_rate = 0 /\ id = 0
    /\ inter_arrival = Zero /\ t = Zero
    /\ seen_error = FALSE /\ late_dispatches = 0
    /\ wall = 0 /\ start_time = 0 /\ now = 0
    /\ pc = 0 /\ tc = 0 /\ rep_time = 0

\* the state before function e is called with arguments a
Start(e, a) ==
    /\ entry = e /\ args = a /\ ctl = "start" /\ stack = <<>>
    /\ resps = <<>> /\ service = "any" /\ timing = "free"
    /\ Locals


(***************************************************************************)
(* A run of GetResult alone.                                               *)
(***************************************************************************)
InitGetResult ==
    /\ entry = "GetResult" /\ args = [rid |-> 0] /\ service = "any"
    /\ timing = "free"
    /\ resps \in GetResultInputs
    /\ ctl = "start" /\ stack = <<>>
    /\ Locals

CallGetResult ==
    /\ ctl = "start" /\ entry = "GetResult"
    /\ result' = GetResult(resps)
    /\ ctl' = "done"
    /\ UNCHANGED <<inputVars, stack, resps, conVars, roundVars, has_error, hist,
                   warmVars, stepVars, provVars>>

NextGetResult == CallGetResult

SpecGetResult == InitGetResult /\ [][NextGetResult]_vars

(***************************************************************************)
(* The goroutines of a round.  A goroutine is at "invoke" until            *)
(* InvokeAction returns, at "getresult" until GetResult returns, at        *)
(* "store" before atomic.StoreInt32 and at "exit" before the deferred      *)
(* wg.Done.                                                                *)
(***************************************************************************)
PaceCtl == {"pace_loop", "pace_sleep", "pace_go", "pace_check", "pace_wait"}

\* lines 146-147: the closure of send_con_req only prints the error
ConTaskAfterError == "exit"

\* lines 206-209: the closure of the pacing loop stores has_error
PaceTaskAfterError == "store"

AfterError == IF ctl \in PaceCtl THEN PaceTaskAfterError ELSE ConTaskAfterError

Move(from, to) ==
    IF from = to THEN tasks
    ELSE [tasks EXCEPT ![from] = @ - 1, ![to] = @ + 1]

\* the rate step or provisioned level the controller is at
Level ==
    IF entry = "benchmark_step_warm_lat" THEN target_rate
    ELSE IF entry = "benchmark_warm_at_fixed_provision" THEN pc
    ELSE 1

\* failed_at once handle_error has printed an error
FirstFailure == IF failed_at = 0 THEN Level ELSE failed_at

\* InvokeAction returns; on an error handle_error prints it
TaskInvoke ==
    /\ tasks.invoke > 0
    /\ \E ok \in InvokeOutcomes :
        IF ok THEN /\ tasks' = Move("invoke", "getresult")
                   /\ failed' = failed /\ failed_at' = failed_at
              ELSE /\ tasks' = Move("invoke", AfterError)
                   /\ failed' = TRUE /\ failed_at' = FirstFailure
    /\ UNCHANGED <<inputVars, ctl, stack, getVars, conVars, wg, started,
                   completed, has_error, hist, warmVars, stepVars, provVars>>

\* GetResult returns; on an error handle_error prints it
TaskGetResult ==
    /\ tasks.getresult > 0
    /\ \E answers \in TaskAnswers :
        IF Err(GetResult(answers))
        THEN /\ tasks' = Move("getresult", AfterError)
             /\ failed' = TRUE /\ failed_at' = FirstFailure
        ELSE /\ tasks' = Move("getresult", "exit")
             /\ failed' = failed /\ failed_at' = failed_at
    /\ UNCHANGED <<inputVars, ctl, stack, getVars, conVars, wg, started,
                   completed, has_error, hist, warmVars, stepVars, provVars>>

\* atomic.StoreInt32(&has_error, 1)
TaskStore ==
    /\ tasks.store > 0
    /\ has_error' = 1
    /\ tasks' = Move("store", "exit")
    /\ UNCHANGED <<inputVars, ctl, stack, getVars, conVars, wg, started,
                   completed, failed, failed_at, hist, warmVars, stepVars, provVars>>

\* a goroutine returning without wg.Done()
DoneMissing(counter) == counter

\* wg.Done() decrements the counter
Done(counter) == counter - 1

\* defer wg.Done()
TaskDone ==
    /\ tasks.exit > 0
    /\ tasks' = [tasks EXCEPT !.exit = @ - 1]
    /\ wg' = Done(wg)
    /\ completed' = completed + 1
    /\ UNCHANGED <<inputVars, ctl, stack, getVars, conVars, started, failed, failed_at,
                   has_error, hist, warmVars, stepVars, provVars>>

\* wg.Wait() returning with a goroutine still running
WaitReturnsEarly(counter) == counter <= 1

\* wg.Wait() returns when the counter is zero
WaitReturns(counter) == counter = 0

(***************************************************************************)
(* send_con_req(num, ctx)                                                  *)
(***************************************************************************)
\* the call: var wg sync.WaitGroup; count := 0
CallSendConReq(n, return_to) ==
    /\ num' = n /\ count' = 0
    /\ wg' = 0 /\ started' = 0 /\ completed' = 0 /\ failed' = FALSE
    /\ failed_at' = failed_at
    /\ hist' = Append(hist, <<"con", n>>)
    /\ ctl' = "con_loop"
    /\ stack' = <<return_to>> \o stack

\* lines 137-148: wg.Add(1); go func(count); count += 1
ConLoop ==
    /\ ctl = "con_loop"
    /\ IF count < num
       THEN /\ wg' = wg + 1
            /\ tasks' = [tasks EXCEPT !.invoke = @ + 1]
            /\ started' = started + 1
            /\ count' = count + 1
            /\ UNCHANGED ctl
       ELSE /\ ctl' = "con_wait"
            /\ UNCHANGED <<wg, tasks, started, count>>
    /\ UNCHANGED <<inputVars, stack, getVars, num, completed, failed, failed_at,
                   has_error, hist, warmVars, stepVars, provVars>>

\* line 149: wg.Wait(), then return
ConWait ==
    /\ ctl = "con_wait"
    /\ WaitReturns(wg)
    /\ ctl' = Head(stack) /\ stack' = Tail(stack)
    /\ UNCHANGED <<inputVars, getVars, conVars, roundVars, has_error, hist,
                   warmVars, stepVars, provVars>>

InitRound ==
    \E n \in 0..MaxNum : Start("send_con_req", [num |-> n])

EnterSendConReq ==
    /\ ctl = "start" /\ entry = "send_con_req"
    /\ CallSendConReq(args.num, "done")
    /\ UNCHANGED <<inputVars, getVars, tasks, has_error, warmVars, stepVars,
                   provVars>>

NextRound ==
    \/ EnterSendConReq
    \/ ConLoop
    \/ ConWait
    \/ TaskInvoke
    \/ TaskGetResult
    \/ TaskDone

SpecRound == InitRound /\ [][NextRound]_vars

(***************************************************************************)
(* warm_up(start, step, target, ctx)                                       *)
(***************************************************************************)
\* the call: rate := start
CallWarmUp(start, stp, target, return_to) ==
    /\ rate' = start /\ w_step' = stp /\ w_target' = target
    /\ ctl' = "warm_loop"
    /\ stack' = <<return_to>> \o stack

\* line 158 with the bound of the earlier version of warm_up (rate < target)
WarmMoreToTarget(r, stp, target) == r < target

\* line 158: rate < target+2*step
WarmMore(r, stp, target) == r < target + 2 * stp

\* lines 158-162: send_con_req(rate, ctx), or "Warm up done" and return
WarmLoop ==
    /\ ctl = "warm_loop"
    /\ IF WarmMore(rate, w_step, w_target)
       THEN /\ CallSendConReq(rate, "warm_next")
            /\ UNCHANGED tasks
       ELSE /\ ctl' = Head(stack) /\ stack' = Tail(stack)
            /\ UNCHANGED <<conVars, roundVars, hist>>
    /\ UNCHANGED <<inputVars, getVars, has_error, warmVars, stepVars, provVars>>

\* line 158: rate += step
WarmNext ==
    /\ ctl = "warm_next"
    /\ rate' = rate + w_step
    /\ ctl' = "warm_loop"
    /\ UNCHANGED <<inputVars, stack, getVars, conVars, roundVars, has_error,
                   hist, w_step, w_target, stepVars, provVars>>

WarmInputs ==
    {<<0, 4, 16>>} \cup
    {<<s, d, g>> : s \in 0..MaxStart, d \in 1..MaxStep, g \in 0..MaxTarget}

InitWarmUp ==
    \E w \in WarmInputs :
         Start("warm_up", [start |-> w[1], step |-> w[2], target |-> w[3]])

EnterWarmUp ==
    /\ ctl = "start" /\ entry = "warm_up"
    /\ CallWarmUp(args.start, args.step, args.target, "done")
    /\ UNCHANGED <<inputVars, getVars, conVars, roundVars, has_error, hist,
                   stepVars, provVars>>

NextWarmUp ==
    \/ EnterWarmUp
    \/ WarmLoop
    \/ WarmNext
    \/ ConLoop
    \/ ConWait
    \/ TaskInvoke
    \/ TaskGetResult
    \/ TaskDone

SpecWarmUp == InitWarmUp /\ [][NextWarmUp]_vars

(***************************************************************************)
(* benchmark_step_warm_lat(start_rate, end_rate, step, run_duration,       *)
(*                         warm_up_step, ctx)                              *)
(* run_duration is the float64 args.run_duration[1] / 2^args.run_duration[2]. *)
(***************************************************************************)
SecondsPerMinute == 60

\* line 196: 1e6 microseconds to the second
MicrosPerSecond == 1000000

RunDuration == FDyadic(args.run_duration[1], args.run_duration[2])

\* line 193: t < run_duration*60.0
PaceMore == FLess(t, FMul(RunDuration, FFromInt(SecondsPerMinute)))

\* line 219 with the test of the flag left out
StepBreakIgnored(flag) == FALSE

\* line 219 with the comparison turned into has_error >= 0
StepBreakOnClear(flag) == flag >= 0

\* line 219: if has_error > 0 (after wg.Wait(), which orders the stores before it)
StepBreak(flag) == flag > 0

\* line 213 with the test of the flag left out
PaceBreakIgnored(flag) == FALSE

\* line 213: if has_error > 0
PaceBreak(flag) == flag > 0

\* line 213 reads has_error without sync/atomic while goroutines store it: a data
\* race, in which the read may still return the value from before the store
RacyLoad(flag) == IF flag = 0 THEN {0} ELSE {0, flag}

\* line 214 leaving the function instead of the loop
PaceBreakSkipsWait == "step_check"

\* line 214: break leads to wg.Wait() at line 217
PaceBreakTarget == "pace_wait"

\* lines 183-185: has_error := 0; cur_rate := 0; target_rate := start_rate
EnterStepWarmLat ==
    /\ ctl = "start" /\ entry = "benchmark_step_warm_lat"
    /\ has_error' = 0 /\ cur_rate' = 0 /\ target_rate' = args.start_rate
    /\ ctl' = "step_loop"
    /\ UNCHANGED <<inputVars, stack, getVars, conVars, roundVars, hist,
                   warmVars, id, inter_arrival, t, seen_error, late_dispatches, wall, start_time, now,
                   provVars>>

\* lines 185-186: target_rate <= end_rate; warm_up(cur_rate, warm_up_step, target_rate, ctx)
StepLoop ==
    /\ ctl = "step_loop"
    /\ IF target_rate <= args.end_rate
       THEN CallWarmUp(cur_rate, args.warm_up_step, target_rate, "step_measure")
       ELSE /\ ctl' = "done"
            /\ UNCHANGED <<stack, warmVars>>
    /\ UNCHANGED <<inputVars, getVars, conVars, roundVars, has_error, hist,
                   stepVars, provVars>>

\* lines 187-192: cur_rate = target_rate; id := 0; var wg; inter_arrival; t := 0.0
StepMeasure ==
    /\ ctl = "step_measure"
    /\ cur_rate' = target_rate
    /\ id' = 0
    /\ wg' = 0 /\ started' = 0 /\ completed' = 0 /\ failed' = FALSE
    /\ failed_at' = failed_at
    /\ inter_arrival' = FInv(target_rate)
    /\ start_time' = wall /\ wall' = wall /\ now' = now
    /\ t' = Zero
    /\ seen_error' = FALSE /\ late_dispatches' = 0
    /\ hist' = Append(hist, <<"pace", target_rate>>)
    /\ ctl' = "pace_loop"
    /\ UNCHANGED <<inputVars, stack, getVars, conVars, tasks, has_error,
                   warmVars, target_rate, provVars>>

\* line 196: int64(t*1e6), the offset of the slot in microseconds
SlotMicros == FTrunc(FMulInt(t, MicrosPerSecond))

\* line 196: start_time+int64(t*1e6) > now.  With the clock not tracked the
\* test can go either way, except at t = 0, where it is start_time > now.
Ahead(reading) ==
    IF timing = "clocked" THEN {start_time + SlotMicros > reading}
    ELSE IF t = Zero THEN {FALSE} ELSE BOOLEAN

\* lines 193-196: the loop test, wg.Add(1), now := time.Now().UnixMicro(), and
\* whether the slot is still ahead
PaceLoop ==
    /\ ctl = "pace_loop"
    /\ IF PaceMore
       THEN /\ InFlight < MaxInFlight
            /\ wg' = wg + 1
            /\ now' = wall
            /\ \E ahead \in Ahead(wall) :
                 ctl' = IF ahead THEN "pace_sleep" ELSE "pace_go"
       ELSE /\ ctl' = "pace_wait"
            /\ UNCHANGED <<wg, now>>
    /\ UNCHANGED <<inputVars, stack, getVars, conVars, tasks, started,
                   completed, failed, failed_at, has_error, hist, warmVars,
                   cur_rate, target_rate, id, inter_arrival, t, seen_error,
                   late_dispatches, wall, start_time, provVars>>

\* line 197 without start_time
SleepDurationFromZero == SlotMicros - now

\* line 197: sleep_duration := start_time + int64(t*1e6) - now
SleepDuration == start_time + SlotMicros - now

\* line 198: time.Sleep(sleep_duration) returns once sleep_duration has passed
\* (at once when it is not positive)
PaceSleep ==
    /\ ctl = "pace_sleep"
    /\ wall' = IF timing = "clocked" /\ SleepDuration > 0
               THEN wall + SleepDuration ELSE wall
    /\ ctl' = "pace_go"
    /\ UNCHANGED <<inputVars, stack, getVars, conVars, roundVars, has_error,
                   hist, warmVars, cur_rate, target_rate, id, inter_arrival, t,
                   seen_error, late_dispatches, start_time, now, provVars>>

\* time passes while the controller is between lines 192 and 217
Tick ==
    /\ timing = "clocked"
    /\ ctl \in PaceCtl \cup {"step_measure"}
    /\ wall < MaxTicks * TickMicros
    /\ wall' = wall + TickMicros
    /\ UNCHANGED <<inputVars, ctl, stack, getVars, conVars, roundVars, has_error,
                   hist, warmVars, cur_rate, target_rate, id, inter_arrival, t,
                   seen_error, late_dispatches, start_time, now, provVars>>

\* lines 200-211: go func(id); id++
PaceGo ==
    /\ ctl = "pace_go"
    /\ tasks' = [tasks EXCEPT !.invoke = @ + 1]
    /\ started' = started + 1
    /\ id' = id + 1
    /\ late_dispatches' = late_dispatches + (IF has_error > 0 THEN 1 ELSE 0)
    /\ ctl' = "pace_check"
    /\ UNCHANGED <<inputVars, stack, getVars, conVars, wg, completed, failed, failed_at,
                   has_error, hist, warmVars, cur_rate, target_rate,
                   inter_arrival, t, seen_error, wall, start_time, now, provVars>>

\* lines 213-215 and 193: break when the flag reads set, else t += inter_arrival
PaceCheck ==
    /\ ctl = "pace_check"
    /\ \E flag \in RacyLoad(has_error) :
        /\ seen_error' = (flag > 0)
        /\ IF PaceBreak(flag)
           THEN /\ ctl' = PaceBreakTarget
                /\ t' = t
           ELSE /\ ctl' = "pace_loop"
                /\ t' = FAdd(t, inter_arrival)
    /\ UNCHANGED <<inputVars, stack, getVars, conVars, roundVars, has_error,
                   hist, warmVars, cur_rate, target_rate, id, inter_arrival,
                   late_dispatches, wall, start_time, now, provVars>>

\* line 217: wg.Wait()
PaceWait ==
    /\ ctl = "pace_wait"
    /\ WaitReturns(wg)
    /\ ctl' = "step_check"
    /\ UNCHANGED <<inputVars, stack, getVars, conVars, roundVars, has_error,
                   hist, warmVars, stepVars, provVars>>

\* lines 219-221 and 185: break when has_error > 0, else target_rate += step
StepCheck ==
    /\ ctl = "step_check"
    /\ IF StepBreak(has_error)
       THEN /\ ctl' = "done"
            /\ UNCHANGED target_rate
       ELSE /\ target_rate' = target_rate + args.step
            /\ ctl' = "step_loop"
    /\ UNCHANGED <<inputVars, stack, getVars, conVars, roundVars, has_error,
                   hist, warmVars, cur_rate, id, inter_arrival, t, seen_error,
                   late_dispatches, wall, start_time, now, provVars>>

NextStepWarmLat ==
    \/ EnterStepWarmLat
    \/ StepLoop
    \/ StepMeasure
    \/ PaceLoop
    \/ PaceSleep
    \/ PaceGo
    \/ PaceCheck
    \/ PaceWait
    \/ StepCheck
    \/ WarmLoop
    \/ WarmNext
    \/ ConLoop
    \/ ConWait
    \/ TaskInvoke
    \/ TaskGetResult
    \/ TaskStore
    \/ TaskDone

\* short measurement rounds (15/16 s), every interleaving of their goroutines
SweepInputs ==
    {[start_rate |-> a, end_rate |-> b, step |-> d, run_duration |-> <<1, 6>>,
      warm_up_step |-> w] :
        a \in 1..MaxRate, b \in 1..MaxRate, d \in 1..MaxRateStep,
        w \in 1..MaxWarmStep}

InitSweep ==
    \E a \in SweepInputs : Start("benchmark_step_warm_lat", a)

SpecSweep == InitSweep /\ [][NextStepWarmLat]_vars

\* the steps of the controller goroutine in the rate sweep
SweepController ==
    \/ EnterStepWarmLat
    \/ StepLoop
    \/ StepMeasure
    \/ PaceLoop
    \/ PaceSleep
    \/ PaceGo
    \/ PaceCheck
    \/ PaceWait
    \/ StepCheck
    \/ WarmLoop
    \/ WarmNext
    \/ ConLoop
    \/ ConWait

\* the rate sweep when the controller keeps running and every InvokeAction
\* and GetResult call of a goroutine returns
SpecSweepFair ==
    /\ InitSweep /\ [][NextStepWarmLat]_vars
    /\ WF_vars(SweepController)
    /\ WF_vars(TaskInvoke) /\ WF_vars(TaskGetResult)
    /\ WF_vars(TaskStore) /\ WF_vars(TaskDone)

\* one measurement round of a quarter of a minute at each rate
PacerInputs ==
    {[start_rate |-> r, end_rate |-> r, step |-> 1, run_duration |-> <<1, 2>>,
      warm_up_step |-> 4] : r \in 1..MaxPaceRate}

InitPacer ==
    /\ entry = "benchmark_step_warm_lat" /\ args \in PacerInputs
    /\ service = "healthy" /\ timing = "free"
    /\ resps = <<>>
    /\ ctl = "start" /\ stack = <<>>
    /\ Locals

\* with a healthy service no goroutine reaches the store of has_error
NextPacer ==
    \/ EnterStepWarmLat
    \/ StepLoop
    \/ StepMeasure
    \/ PaceLoop
    \/ PaceSleep
    \/ PaceGo
    \/ PaceCheck
    \/ PaceWait
    \/ StepCheck
    \/ WarmLoop
    \/ WarmNext
    \/ ConLoop
    \/ ConWait
    \/ TaskInvoke
    \/ TaskGetResult
    \/ TaskDone

SpecPacer == InitPacer /\ [][NextPacer]_vars

\* short measurement rounds with the wall clock tracked
ClockInputs ==
    {[start_rate |-> r, end_rate |-> r, step |-> 1, run_duration |-> <<1, 6>>,
      warm_up_step |-> 1] : r \in 1..MaxClockRate}

InitClock ==
    /\ entry = "benchmark_step_warm_lat" /\ args \in ClockInputs
    /\ service = "healthy" /\ timing = "clocked"
    /\ resps = <<>>
    /\ ctl = "start" /\ stack = <<>>
    /\ Locals

NextClock ==
    \/ EnterStepWarmLat
    \/ StepLoop
    \/ StepMeasure
    \/ PaceLoop
    \/ PaceSleep
    \/ PaceGo
    \/ PaceCheck
    \/ PaceWait
    \/ StepCheck
    \/ WarmLoop
    \/ WarmNext
    \/ ConLoop
    \/ ConWait
    \/ TaskInvoke
    \/ TaskGetResult
    \/ TaskDone
    \/ Tick

SpecClock == InitClock /\ [][NextClock]_vars

(***************************************************************************)
(* benchmark_warm_at_fixed_provision(pc_right, keep_warm_time, ctx)        *)
(***************************************************************************)
Repetitions == 3

\* line 232 with the bound of the repetition loop off by one
RepeatOneLess(rep) == rep < Repetitions - 1

\* line 232: rep_time < 3
RepeatMore(rep) == rep < Repetitions

\* line 227: pc := pc_right
EnterFixedProvision ==
    /\ ctl = "start" /\ entry = "benchmark_warm_at_fixed_provision"
    /\ pc' = args.pc_right
    /\ ctl' = "prov_outer"
    /\ UNCHANGED <<inputVars, stack, getVars, conVars, roundVars, has_error,
                   hist, warmVars, stepVars, tc, rep_time>>

\* lines 227-228: pc > 0; tc := pc
ProvOuter ==
    /\ ctl = "prov_outer"
    /\ IF pc > 0
       THEN tc' = pc /\ ctl' = "prov_inner"
       ELSE tc' = tc /\ ctl' = "done"
    /\ UNCHANGED <<inputVars, stack, getVars, conVars, roundVars, has_error,
                   hist, warmVars, stepVars, pc, rep_time>>

\* lines 228-230: tc > 0; send_con_req(pc, ctx)
ProvInner ==
    /\ ctl = "prov_inner"
    /\ IF tc > 0
       THEN /\ CallSendConReq(pc, "prov_first_rep")
            /\ UNCHANGED tasks
       ELSE /\ ctl' = "prov_sleep"
            /\ UNCHANGED <<stack, conVars, roundVars, hist>>
    /\ UNCHANGED <<inputVars, getVars, has_error, warmVars, stepVars, provVars>>

\* line 232: rep_time := 0
ProvFirstRep ==
    /\ ctl = "prov_first_rep"
    /\ rep_time' = 0
    /\ ctl' = "prov_reps"
    /\ UNCHANGED <<inputVars, stack, getVars, conVars, roundVars, has_error,
                   hist, warmVars, stepVars, pc, tc>>

\* lines 232-234 and 228: send_con_req(tc, ctx) while rep_time < 3, then tc--
ProvReps ==
    /\ ctl = "prov_reps"
    /\ IF RepeatMore(rep_time)
       THEN /\ CallSendConReq(tc, "prov_next_rep")
            /\ UNCHANGED <<tasks, tc>>
       ELSE /\ tc' = tc - 1
            /\ ctl' = "prov_inner"
            /\ UNCHANGED <<stack, conVars, roundVars, hist>>
    /\ UNCHANGED <<inputVars, getVars, has_error, warmVars, stepVars, pc,
                   rep_time>>

\* line 232: rep_time++
ProvNextRep ==
    /\ ctl = "prov_next_rep"
    /\ rep_time' = rep_time + 1
    /\ ctl' = "prov_reps"
    /\ UNCHANGED <<inputVars, stack, getVars, conVars, roundVars, has_error,
                   hist, warmVars, stepVars, pc, tc>>

\* lines 237 and 227: time.Sleep(keep_warm_time minutes); pc--
ProvSleep ==
    /\ ctl = "prov_sleep"
    /\ hist' = Append(hist, <<"sleep", args.keep_warm_time>>)
    /\ pc' = pc - 1
    /\ ctl' = "prov_outer"
    /\ UNCHANGED <<inputVars, stack, getVars, conVars, roundVars, has_error,
                   warmVars, stepVars, tc, rep_time>>

NextFixedProvision ==
    \/ EnterFixedProvision
    \/ ProvOuter
    \/ ProvInner
    \/ ProvFirstRep
    \/ ProvReps
    \/ ProvNextRep
    \/ ProvSleep
    \/ ConLoop
    \/ ConWait
    \/ TaskInvoke
    \/ TaskGetResult
    \/ TaskDone

\* keep_warm_time is 2 at both calls in main (lines 309 and 313)
InitProvision ==
    \E p \in 1..MaxProvisioned :
        Start("benchmark_warm_at_fixed_provision",
              [pc_right |-> p, keep_warm_time |-> 2])

SpecProvision == InitProvision /\ [][NextFixedProvision]_vars

(***************************************************************************)
(* Either sweep: the rate sweep or the provisioned-concurrency sweep.      *)
(***************************************************************************)
InitSweeps == InitSweep \/ InitProvision

NextSweeps ==
    \/ EnterStepWarmLat
    \/ StepLoop
    \/ StepMeasure
    \/ PaceLoop
    \/ PaceSleep
    \/ PaceGo
    \/ PaceCheck
    \/ PaceWait
    \/ StepCheck
    \/ WarmLoop
    \/ WarmNext
    \/ EnterFixedProvision
    \/ ProvOuter
    \/ ProvInner
    \/ ProvFirstRep
    \/ ProvReps
    \/ ProvNextRep
    \/ ProvSleep
    \/ ConLoop
    \/ ConWait
    \/ TaskInvoke
    \/ TaskGetResult
    \/ TaskStore
    \/ TaskDone

SpecSweeps == InitSweeps /\ [][NextSweeps]_vars

(***************************************************************************)
(* Properties.                                                             *)
(***************************************************************************)
Last(seq) == seq[Len(seq)]

\* C1: send_con_req(num) launches exactly num goroutines, whatever they do,
\* and has not returned before all num of them have run to their wg.Done.
C1_RoundLaunchesAndAwaitsAll ==
    /\ ctl \in {"con_loop", "con_wait"} => started <= args.num
    /\ ctl = "done" =>
         started = args.num /\ completed = args.num /\ InFlight = 0

\* a round of at least two goroutines, one of them failing, has returned
C1_Witness == ctl = "done" /\ args.num >= 2 /\ failed /\ completed = args.num

EveryFetchNotFound ==
    \A i \in 1..Len(result.trace) : result.trace[i] \in {"notfound", "sleep"}

\* C2: a GetResult call whose fetches all answer "not found yet" makes exactly
\* 19 fetches and returns the not-found error; no call makes more than 19.
C2_NineteenFetches ==
    ctl = "done" =>
        /\ result.fetches <= 19
        /\ EveryFetchNotFound =>
             result.fetches = 19 /\ result.resp = "notfound" /\ Err(result)

\* GetResult has returned after nothing but "not found yet" answers
C2_Witness == ctl = "done" /\ EveryFetchNotFound /\ Len(resps) > 19

\* C3: a fetch that fails with an error other than "not found yet" is the last
\* thing GetResult does: no further fetch and no retry delay follow it.
C3_OtherErrorReturnsAtOnce ==
    ctl = "done" =>
        \A i \in 1..Len(result.trace) :
            result.trace[i] = "other" => i = Len(result.trace)

\* C4: once has_error is set, the measurement round in which it was set is the
\* last round the sweep starts: the controller only finishes that round, tests
\* the flag and returns.
C4_FailingStepIsLast ==
    has_error > 0 =>
        /\ ctl \in PaceCtl \cup {"step_check", "done"}
        /\ Last(hist) = <<"pace", cur_rate>>

\* the sweep has returned on the flag with a higher rate still to measure
C4_Witness ==
    ctl = "done" /\ has_error > 0 /\ target_rate + args.step <= args.end_rate

\* C5 as claimed: no goroutine of a measurement round is launched while
\* has_error is already set.
C5_NoDispatchAfterFlagSet == late_dispatches = 0

\* C5 as amended: once the test at line 213 has read has_error as set, the
\* round launches no further goroutine.
C5_NoDispatchAfterFlagSeen == [][seen_error => started' = started]_vars

\* the loop was left on the flag with slots of the round still to come
C5_Witness ==
    /\ ctl = "pace_wait" /\ seen_error
    /\ FLess(FAdd(t, inter_arrival), FMul(RunDuration, FFromInt(SecondsPerMinute)))

\* C6: while a goroutine of a measurement round is unfinished the sweep is
\* still inside that round: it has neither reached the test after wg.Wait()
\* nor started the next step nor returned.
C6_PaceBarrier ==
    /\ ctl \in {"step_check", "step_loop", "done"} => InFlight = 0
    /\ ctl = "step_check" => completed = started

\* a round left early on the flag has passed wg.Wait() with every goroutine done
C6_Witness ==
    ctl = "step_check" /\ seen_error /\ started >= 2 /\ completed = started

RampCase == [start |-> 0, step |-> 4, target |-> 16]

\* C7 as claimed: warm_up(0, 4, 16) runs rounds of sizes 4, 8, 12, 16, 20.
C7_RampSizesFromFour ==
    (ctl = "done" /\ args = RampCase) =>
        hist = <<<<"con", 4>>, <<"con", 8>>, <<"con", 12>>, <<"con", 16>>,
                 <<"con", 20>>>>

\* C7 as amended: warm_up(0, 4, 16) runs rounds of sizes 0, 4, 8, 12, 16, 20,
\* in that order and no others; the first launches no goroutine.
C7_RampSizesFromZero ==
    (ctl = "done" /\ args = RampCase) =>
        hist = <<<<"con", 0>>, <<"con", 4>>, <<"con", 8>>, <<"con", 12>>,
                 <<"con", 16>>, <<"con", 20>>>>

\* warm_up(0, 4, 16) has returned
C7_Witness == ctl = "done" /\ args = RampCase /\ Len(hist) = 6 /\ Last(hist) = <<"con", 20>>

\* the rounds of provisioned level p for test concurrencies c down to 1
RECURSIVE LevelRounds(_, _)
LevelRounds(p, c) ==
    IF c = 0 THEN <<>>
    ELSE <<<<"con", p>>, <<"con", c>>, <<"con", c>>, <<"con", c>>>>
           \o LevelRounds(p, c - 1)

\* the rounds and cooldowns of the levels p down to 1
RECURSIVE SweepRounds(_, _)
SweepRounds(p, minutes) ==
    IF p = 0 THEN <<>>
    ELSE LevelRounds(p, p) \o <<<<"sleep", minutes>>>>
           \o SweepRounds(p - 1, minutes)

IsPrefix(short, long) ==
    Len(short) <= Len(long) /\ short = SubSeq(long, 1, Len(short))

\* C8: the provisioned-concurrency sweep runs, for pc from pc_right down to 1
\* and tc from pc down to 1, one round of size pc and then three of size tc,
\* and sleeps after tc = 1 before the next level; from pc_right = 3 it starts
\* 3,3,3,3, 3,2,2,2, 3,1,1,1, cooldown, and then level 2.
C8_ProvisionOrder ==
    /\ IsPrefix(hist, SweepRounds(args.pc_right, args.keep_warm_time))
    /\ ctl = "done" => hist = SweepRounds(args.pc_right, args.keep_warm_time)
    /\ (args.pc_right = 3 /\ Len(hist) >= 14) =>
         SubSeq(hist, 1, 14) =
           <<<<"con", 3>>, <<"con", 3>>, <<"con", 3>>, <<"con", 3>>,
             <<"con", 3>>, <<"con", 2>>, <<"con", 2>>, <<"con", 2>>,
             <<"con", 3>>, <<"con", 1>>, <<"con", 1>>, <<"con", 1>>,
             <<"sleep", 2>>, <<"con", 2>>>>

\* the sweep from pc_right = 3 has returned
C8_Witness == ctl = "done" /\ args.pc_right = 3 /\ Len(hist) >= 14

\* the multiples of 1/target_rate below run_duration*60: ceil(60 * n * R / 2^k)
ExpectedDispatches ==
    (SecondsPerMinute * args.run_duration[1] * target_rate
       + 2^args.run_duration[2] - 1) \div 2^args.run_duration[2]

\* C9: a measurement round in which no goroutine fails launches exactly as
\* many goroutines as there are multiples of 1/R below D*60.
C9_DispatchCount ==
    (ctl = "step_check" /\ ~failed) => id = ExpectedDispatches

\* C10: when a goroutine of a send_con_req round has failed,
\* has_error is set by the time the round returns.
C10_RoundFailureSetsFlag ==
    (ctl = "warm_next" /\ failed) => has_error > 0

RoundCtl == PaceCtl \cup {"con_loop", "con_wait"}

\* C11: once a goroutine has failed, in a warm-up round of the rate sweep or
\* in a round of the provisioned-concurrency sweep, no round is in progress at
\* a later rate step or at a lower provisioned level.
C11_NoRoundPastFailure ==
    (failed_at > 0 /\ ctl \in RoundCtl) => Level = failed_at

IsFetch(entry_of_trace) == entry_of_trace # "sleep"

\* C12: in a GetResult call a sleep of two seconds lies between every two
\* consecutive fetches, the initial fetch and the first retry included.
C12_DelayBetweenFetches ==
    ctl = "done" =>
        \A i \in 1..(Len(result.trace) - 1) :
            ~(IsFetch(result.trace[i]) /\ IsFetch(result.trace[i + 1]))

\* C13: "exhausted retries" is logged exactly when all 1 + 18 fetches answered
\* "not found yet"; the call then returns the error, and a call that returns
\* a result has not logged it.
C13_ExhaustedOnlyOnNotFound ==
    ctl = "done" =>
        /\ result.exhausted <=>
              (result.fetches = RetryBudget + 1 /\ result.resp = "notfound")
        /\ result.exhausted => Err(result)

\* C14: when wg.Wait() of a measurement round has returned, has_error is set
\* if and only if handle_error has printed the error of a goroutine launched
\* since has_error was cleared at line 183.
C14_FlagIffFailure ==
    ctl = "step_check" => (has_error > 0 <=> failed_at > 0)

\* the controller executes the go statement of lines 200-210
Dispatches == ctl = "pace_go" /\ ctl' = "pace_check"

\* C15 as claimed: goroutine number id (0, 1, 2, ...) of a measurement round
\* is not launched before start_time + id/target_rate seconds.
C15_NotBeforeIdealSlot ==
    [][Dispatches =>
         (wall - start_time) * target_rate >= id * MicrosPerSecond]_vars

\* C15 as amended: a goroutine is not launched before start_time +
\* int64(t*1e6) microseconds, t being the float64 sum of the inter-arrival
\* times so far; a controller that reaches the slot at or after that time
\* does not sleep.
C15_NotBeforeComputedSlot ==
    [][/\ Dispatches => wall >= start_time + SlotMicros
       /\ (ctl = "pace_loop" /\ wall >= start_time + SlotMicros)
             => ctl' # "pace_sleep"]_vars

\* the second goroutine or a later one has been launched exactly at its computed
\* slot, which lies before start_time + id/target_rate seconds
C15_Witness ==
    /\ ctl = "pace_check" /\ id >= 2
    /\ wall = start_time + SlotMicros
    /\ SlotMicros * target_rate < (id - 1) * MicrosPerSecond

\* C16: outside a round no goroutine is in flight, so none is when a round or
\* a cooldown sleep starts; inside a round the goroutines in flight are those
\* the round has launched and that have not finished.
C16_OneRoundInFlight ==
    /\ ctl \notin RoundCtl => InFlight = 0
    /\ ctl \in RoundCtl => InFlight = started - completed

\* a round after the first one is waiting for two of its goroutines
C16_Witness ==
    ctl = "con_wait" /\ Len(hist) >= 2 /\ completed >= 1 /\ InFlight >= 2

\* the rates start_rate, start_rate + step, ... up to end_rate
RECURSIVE RatesFrom(_)
RatesFrom(r) ==
    IF r > args.end_rate THEN <<>> ELSE <<r>> \o RatesFrom(r + args.step)

\* the rates of the measurement rounds in h, in order
RECURSIVE PaceRates(_)
PaceRates(h) ==
    IF h = <<>> THEN <<>>
    ELSE (IF Head(h)[1] = "pace" THEN <<Head(h)[2]>> ELSE <<>>)
           \o PaceRates(Tail(h))

\* C17: the sweep measures the rates start_rate, start_rate + step, ... in
\* increasing order, each measurement round right after the rounds of a
\* warm_up; it returns before it has measured all of them only with has_error
\* set, and with has_error clear it has measured every one.
C17_SweepEndsEarlyOnlyOnFlag ==
    /\ IsPrefix(PaceRates(hist), RatesFrom(args.start_rate))
    /\ \A i \in 1..Len(hist) :
          hist[i][1] = "pace" => (i > 1 /\ hist[i - 1][1] = "con")
    /\ ctl = "done" =>
          (has_error > 0 \/ PaceRates(hist) = RatesFrom(args.start_rate))

\* a sweep over at least two rates has returned with has_error clear
C17_Witness ==
    /\ ctl = "done" /\ has_error = 0
    /\ Len(PaceRates(hist)) >= 2

\* C18: for step >= 1 and start <= target, warm_up runs rounds of sizes start,
\* start + step, ..., a bounded number of them, and the size of the last one
\* lies in [target + step, target + 2*step).
C18_RampEndsPastTarget ==
    (args.step >= 1 /\ args.start <= args.target) =>
        /\ \A i \in 1..Len(hist) :
              hist[i] = <<"con", args.start + (i - 1) * args.step>>
        /\ Len(hist) * args.step < args.target + 3 * args.step - args.start
        /\ ctl = "done" =>
              /\ Len(hist) >= 1
              /\ Last(hist)[2] >= args.target + args.step
              /\ Last(hist)[2] < args.target + 2 * args.step

\* a warm_up from a start above zero has returned after three rounds or more
C18_Witness ==
    /\ ctl = "done" /\ args.start >= 1 /\ args.start <= args.target
    /\ Len(hist) >= 3

\* C19: at most one goroutine of a measurement round is launched after
\* has_error has been set.
C19_AtMostOneLateDispatch == late_dispatches <= 1

\* C20: every wg.Add(1) is matched by one launched goroutine that will run
\* wg.Done, and every send_con_req round and every measurement round that has
\* started passes its wg.Wait() and returns.
C20_RoundsReturn ==
    /\ [](wg = InFlight + (IF ctl \in {"pace_sleep", "pace_go"} THEN 1 ELSE 0))
    /\ (ctl \in {"con_loop", "con_wait"}) ~> (ctl \notin {"con_loop", "con_wait"})
    /\ (ctl \in PaceCtl) ~> (ctl = "step_check")

\* a measurement round that stopped launching on the flag has passed wg.Wait()
C20_Witness ==
    ctl = "step_check" /\ has_error > 0 /\ started >= 1 /\ wg = 0

====
